---- MODULE Spec2Model ----
(***************************************************************************)
(* Model of setup-goplus' install package (src/install): the version       *)
(* resolution of InstallGop and the helpers it is built from.              *)
(*                                                                         *)
(* Go strings are modelled as sequences of one-character strings, so that  *)
(* parsing, trimming, splitting and formatting are computed character by   *)
(* character as the code (and the semver library it calls) computes them.  *)
(***************************************************************************)
EXTENDS Integers, Sequences, FiniteSets, TLC

VARIABLES
    pc,               \* position in InstallGop, or call/return of a helper
    env,              \* the environment variables the run reads and sets
    canOpen,          \* whether the files GITHUB_OUTPUT and GITHUB_PATH name open
    pathFile,         \* lines appended to the GITHUB_PATH file, in order
    file,             \* what is found at the path INPUT_GOP_VERSION_FILE names
    remote,           \* the upstream repository: its tag and head ref names
    versionSpec,      \* InstallGop: versionSpec
    validVersions,    \* InstallGop: validVersions
    version,          \* InstallGop: version
    checkoutVersion,  \* InstallGop: checkoutVersion
    outputs,          \* lines appended to the GITHUB_OUTPUT file, in order
    calls,            \* external collaborators called so far, in order
    result,           \* outcome of the run
    args,             \* arguments of the helper under check
    ret               \* value returned by the helper under check

vars == <<pc, env, canOpen, pathFile, file, remote, versionSpec, validVersions, version,
          checkoutVersion, outputs, calls, result, args, ret>>

----------------------------------------------------------------------------
(* Characters and strings.                                                 *)

Digits == {"0", "1", "2", "3", "4", "5", "6", "7", "8", "9"}

\* The bytes the semver library allows in identifiers, in ASCII order.
AllowedOrder ==
    <<"-", "0", "1", "2", "3", "4", "5", "6", "7", "8", "9",
      "A", "B", "C", "D", "E", "F", "G", "H", "I", "J", "K", "L", "M",
      "N", "O", "P", "Q", "R", "S", "T", "U", "V", "W", "X", "Y", "Z",
      "a", "b", "c", "d", "e", "f", "g", "h", "i", "j", "k", "l", "m",
      "n", "o", "p", "q", "r", "s", "t", "u", "v", "w", "x", "y", "z">>

Allowed == {AllowedOrder[i] : i \in 1..Len(AllowedOrder)}

Ord(c) == CHOOSE i \in 1..Len(AllowedOrder) : AllowedOrder[i] = c

DigitVal(c) ==
    CASE c = "0" -> 0 [] c = "1" -> 1 [] c = "2" -> 2 [] c = "3" -> 3
      [] c = "4" -> 4 [] c = "5" -> 5 [] c = "6" -> 6 [] c = "7" -> 7
      [] c = "8" -> 8 [] c = "9" -> 9

DigitChar(n) == CHOOSE c \in Digits : DigitVal(c) = n

\* First index of character c in s, 0 when absent (strings.Index + 1).
IndexOf(s, c) ==
    IF \E i \in 1..Len(s) : s[i] = c
    THEN CHOOSE i \in 1..Len(s) : s[i] = c /\ \A j \in 1..(i - 1) : s[j] # c
    ELSE 0

HasPrefix(s, p) == Len(s) >= Len(p) /\ SubSeq(s, 1, Len(p)) = p

\* strings.TrimPrefix: removes one occurrence of p from the front of s.
TrimPrefix(s, p) == IF HasPrefix(s, p) THEN SubSeq(s, Len(p) + 1, Len(s)) ELSE s

\* strings.Split on a one-character separator; always at least one field.
RECURSIVE Split(_, _)
Split(s, sep) ==
    LET i == IndexOf(s, sep)
    IN  IF i = 0 THEN <<s>>
        ELSE <<SubSeq(s, 1, i - 1)>> \o Split(SubSeq(s, i + 1, Len(s)), sep)

\* containsOnly(s, num) for a non-empty s.
IsNumeric(s) == Len(s) > 0 /\ \A i \in 1..Len(s) : s[i] \in Digits

\* s without its leading zeros.
RECURSIVE StripZeros(_)
StripZeros(s) == IF Len(s) > 0 /\ s[1] = "0" THEN StripZeros(Tail(s)) ELSE s

\* The digits of 1<<64 - 1, the largest uint64.
MaxUint64 ==
    <<"1", "8", "4", "4", "6", "7", "4", "4", "0", "7",
      "3", "7", "0", "9", "5", "5", "1", "6", "1", "5">>

\* For digit strings of one length: a is the greater number.
RECURSIVE DigitsGreater(_, _)
DigitsGreater(a, b) ==
    IF Len(a) = 0 THEN FALSE
    ELSE IF a[1] # b[1] THEN DigitVal(a[1]) > DigitVal(b[1])
    ELSE DigitsGreater(Tail(a), Tail(b))

\* The number the digit string t (no leading zero) writes fits 64 bits.
FitsUint64(t) ==
    Len(t) < Len(MaxUint64) \/ (Len(t) = Len(MaxUint64) /\ ~DigitsGreater(t, MaxUint64))

\* strconv.ParseUint(s, 10, 64) returns no error: s is decimal digits and
\* its value is in range.
ParseUintOK(s) == IsNumeric(s) /\ FitsUint64(StripZeros(s))

\* strconv.ParseUint(s, 10, 64): the value, when there is no error.
RECURSIVE ParseUint(_)
ParseUint(s) ==
    IF Len(s) = 0 THEN 0
    ELSE 10 * ParseUint(SubSeq(s, 1, Len(s) - 1)) + DigitVal(s[Len(s)])

\* The decimal digits of n (fmt %d).
RECURSIVE Itoa(_)
Itoa(n) == IF n < 10 THEN <<DigitChar(n)>> ELSE Itoa(n \div 10) \o <<DigitChar(n % 10)>>

\* Byte-wise order of two strings over Allowed: s > o.
RECURSIVE StrGreater(_, _)
StrGreater(s, o) ==
    IF Len(s) = 0 THEN FALSE
    ELSE IF Len(o) = 0 THEN TRUE
    ELSE IF s[1] # o[1] THEN Ord(s[1]) > Ord(o[1])
    ELSE StrGreater(Tail(s), Tail(o))

----------------------------------------------------------------------------
(* github.com/Masterminds/semver/v3: Version.                              *)

\* One dot-separated run of identifiers, each a non-empty run of Allowed:
\* [0-9A-Za-z\-]+(\.[0-9A-Za-z\-]+)*
IdentOK(s) ==
    LET parts == Split(s, ".")
    IN  \A i \in 1..Len(parts) :
            /\ Len(parts[i]) > 0
            /\ \A j \in 1..Len(parts[i]) : parts[i][j] \in Allowed

\* validatePrerelease: a numeric identifier has no leading zero.
validatePrerelease(p) ==
    LET parts == Split(p, ".")
    IN  \A i \in 1..Len(parts) :
            IsNumeric(parts[i]) => ~(Len(parts[i]) > 1 /\ parts[i][1] = "0")

NoVersion ==
    [ok |-> FALSE, major |-> 0, minor |-> 0, patch |-> 0, pre |-> <<>>, metadata |-> <<>>]

\* s cut at index i (the separator dropped); the whole of s when i = 0.
CutAt(s, i) ==
    IF i = 0 THEN [found |-> FALSE, head |-> s, tail |-> <<>>]
    ELSE [found |-> TRUE, head |-> SubSeq(s, 1, i - 1), tail |-> SubSeq(s, i + 1, Len(s))]

\* s cut at the first occurrence of character c.
SplitAt(s, c) == CutAt(s, IndexOf(s, c))

\* The Version of the matched groups: the numeric components, the
\* pre-release (p.tail, after "-") and the metadata (m.tail, after "+").
versionOf(parts, p, m) ==
    IF /\ Len(parts) \in 1..3
       /\ \A i \in 1..Len(parts) : ParseUintOK(parts[i])
       /\ p.found => (Len(p.tail) > 0 /\ IdentOK(p.tail) /\ validatePrerelease(p.tail))
       /\ m.found => (Len(m.tail) > 0 /\ IdentOK(m.tail))
    THEN [ok       |-> TRUE,
          major    |-> ParseUint(parts[1]),
          minor    |-> IF Len(parts) >= 2 THEN ParseUint(parts[2]) ELSE 0,
          patch    |-> IF Len(parts) >= 3 THEN ParseUint(parts[3]) ELSE 0,
          pre      |-> p.tail,
          metadata |-> m.tail]
    ELSE NoVersion

\* The part before the metadata: components, then "-" and the pre-release.
versionCore(p, m) == versionOf(Split(p.head, "."), p, m)

\* The version without its "v": everything after the first "+" is metadata.
versionBody(m) == versionCore(SplitAt(m.head, "-"), m)

\* semver.NewVersion: the lenient parser. One optional "v", one to three
\* numeric components (missing ones are 0), optional -prerelease and +metadata.
NewVersion(raw) == versionBody(SplitAt(TrimPrefix(raw, <<"v">>), "+"))

\* Version.String: the canonical form, never with a leading "v".
String(v) ==
    Itoa(v.major) \o <<".">> \o Itoa(v.minor) \o <<".">> \o Itoa(v.patch)
      \o (IF v.pre # <<>> THEN <<"-">> \o v.pre ELSE <<>>)
      \o (IF v.metadata # <<>> THEN <<"+">> \o v.metadata ELSE <<>>)

\* comparePrePart
comparePrePart(s, o) ==
    IF s = o THEN 0
    ELSE IF s = <<>> THEN -1
    ELSE IF o = <<>> THEN 1
    ELSE IF ~ParseUintOK(o) /\ ~ParseUintOK(s) THEN (IF StrGreater(s, o) THEN 1 ELSE -1)
    ELSE IF ~ParseUintOK(o) THEN -1
    ELSE IF ~ParseUintOK(s) THEN 1
    ELSE IF ParseUint(s) > ParseUint(o) THEN 1 ELSE -1

\* The loop of comparePrerelease from identifier i on: the first difference
\* decides, a missing identifier reads as the empty string.
RECURSIVE comparePreLoop(_, _, _)
comparePreLoop(sparts, oparts, i) ==
    IF i > Len(sparts) /\ i > Len(oparts) THEN 0
    ELSE IF comparePrePart(IF i <= Len(sparts) THEN sparts[i] ELSE <<>>,
                           IF i <= Len(oparts) THEN oparts[i] ELSE <<>>) # 0
         THEN comparePrePart(IF i <= Len(sparts) THEN sparts[i] ELSE <<>>,
                             IF i <= Len(oparts) THEN oparts[i] ELSE <<>>)
         ELSE comparePreLoop(sparts, oparts, i + 1)

comparePrerelease(v, o) == comparePreLoop(Split(v, "."), Split(o, "."), 1)

compareSegment(v, o) == IF v < o THEN -1 ELSE IF v > o THEN 1 ELSE 0

\* Version.Compare: major, minor, patch, then the pre-release; metadata ignored.
Compare(v, o) ==
    IF compareSegment(v.major, o.major) # 0 THEN compareSegment(v.major, o.major)
    ELSE IF compareSegment(v.minor, o.minor) # 0 THEN compareSegment(v.minor, o.minor)
    ELSE IF compareSegment(v.patch, o.patch) # 0 THEN compareSegment(v.patch, o.patch)
    ELSE IF v.pre = <<>> /\ o.pre = <<>> THEN 0
    ELSE IF v.pre = <<>> THEN 1
    ELSE IF o.pre = <<>> THEN -1
    ELSE comparePrerelease(v.pre, o.pre)

LessThan(v, o) == Compare(v, o) < 0

GreaterThan(v, o) == Compare(v, o) > 0

\* Equal, were the pre-release left out of the comparison.
Equal_IgnoresPrerelease(v, o) ==
    v.major = o.major /\ v.minor = o.minor /\ v.patch = o.patch

Equal(v, o) == Compare(v, o) = 0

----------------------------------------------------------------------------
(* isValidVersion                                                          *)

isValidVersion(raw) ==
    LET v     == TrimPrefix(raw, <<"v">>)
        parts == Split(Split(v, "-")[1], ".")
    IN  IF Len(parts) # 3 THEN FALSE ELSE NewVersion(v).ok

----------------------------------------------------------------------------
(* github.com/Masterminds/semver/v3: Constraints.  A constraint is "||"    *)
(* separated groups of clauses; the clauses of a group are separated by    *)
(* white space or a comma; a clause is an optional operator and a version  *)
(* whose components may be wildcards; "a - b" is rewritten to two clauses. *)

\* The class \s of the regular expressions: [\t\n\f\r ]
PerlSpace == {" ", "\t", "\n", "\f", "\r"}

\* The characters of a constraint's version component: [0-9|x|X|\*]
CompChars == Digits \cup {"|", "x", "X", "*"}

isX(x) == x \in {<<"x">>, <<"*">>, <<"X">>}

\* Length of the longest prefix of s made of characters of set.
RECURSIVE TakeWhile(_, _)
TakeWhile(s, set) ==
    IF Len(s) = 0 \/ s[1] \notin set THEN 0 ELSE 1 + TakeWhile(Tail(s), set)

Drop(s, n) == SubSeq(s, n + 1, Len(s))

\* \s* at the head of s, removed.
SkipSpace(s) == Drop(s, TakeWhile(s, PerlSpace))

\* Length of the longest prefix of s matching set+(\.set+)*
RECURSIVE DottedRun(_, _)
DottedRun(s, set) ==
    LET k == TakeWhile(s, set)
    IN  IF k = 0 THEN 0
        ELSE IF Len(s) > k /\ s[k + 1] = "." /\ DottedRun(Drop(s, k + 1), set) > 0
             THEN k + 1 + DottedRun(Drop(s, k + 1), set)
             ELSE k

\* [0-9A-Za-z\-]+(\.[0-9A-Za-z\-]+)* at the head of s.
IdentRun(s) == DottedRun(s, Allowed)

\* The operator a clause starts with: = != > < >= => <= =< ~ ~> ^ or none.
ReadOp(s) ==
    IF Len(s) >= 2 /\ SubSeq(s, 1, 2) \in
          {<<"!", "=">>, <<">", "=">>, <<"=", ">">>, <<"<", "=">>, <<"=", "<">>, <<"~", ">">>}
    THEN SubSeq(s, 1, 2)
    ELSE IF Len(s) >= 1 /\ s[1] \in {"=", ">", "<", "~", "^"} THEN SubSeq(s, 1, 1)
    ELSE <<>>

\* An optional ".component" at the head of s: its length, 0 when absent.
DotComp(s) ==
    IF Len(s) >= 2 /\ s[1] = "." /\ TakeWhile(Tail(s), CompChars) > 0
    THEN 1 + TakeWhile(Tail(s), CompChars) ELSE 0

\* An optional mark ("-" or "+") and identifiers at the head of s: its length.
MarkIdent(s, mark) ==
    IF Len(s) >= 2 /\ s[1] = mark /\ IdentRun(Tail(s)) > 0
    THEN 1 + IdentRun(Tail(s)) ELSE 0

\* cvRegex, matched group by group at the head of the text; r is what
\* follows the groups matched so far.
cvMeta(g, r) ==
    [ok    |-> TRUE,
     whole |-> g.whole \o SubSeq(r, 1, MarkIdent(r, "+")),
     major |-> g.major, minor |-> g.minor, patch |-> g.patch, pre |-> g.pre,
     rest  |-> Drop(r, MarkIdent(r, "+"))]

cvPre(g, r) ==
    cvMeta([whole |-> g.whole \o SubSeq(r, 1, MarkIdent(r, "-")),
            major |-> g.major, minor |-> g.minor, patch |-> g.patch,
            pre   |-> SubSeq(r, 1, MarkIdent(r, "-"))],
           Drop(r, MarkIdent(r, "-")))

cvPatch(g, r) ==
    cvPre([whole |-> g.whole \o SubSeq(r, 1, DotComp(r)),
           major |-> g.major, minor |-> g.minor,
           patch |-> SubSeq(r, 1, DotComp(r))],
          Drop(r, DotComp(r)))

cvMinor(g, r) ==
    IF DotComp(r) = 0
    THEN cvPre([whole |-> g.whole, major |-> g.major, minor |-> <<>>, patch |-> <<>>], r)
    ELSE cvPatch([whole |-> g.whole \o SubSeq(r, 1, DotComp(r)),
                  major |-> g.major,
                  minor |-> SubSeq(r, 1, DotComp(r))],
                 Drop(r, DotComp(r)))

NoCV ==
    [ok |-> FALSE, whole |-> <<>>, major |-> <<>>, minor |-> <<>>, patch |-> <<>>,
     pre |-> <<>>, rest |-> <<>>]

cvMajor(v, r) ==
    IF TakeWhile(r, CompChars) = 0 THEN NoCV
    ELSE cvMinor([whole |-> v \o SubSeq(r, 1, TakeWhile(r, CompChars)),
                  major |-> SubSeq(r, 1, TakeWhile(r, CompChars))],
                 Drop(r, TakeWhile(r, CompChars)))

\* cvRegex at the head of s: v?, one to three components, -pre, +metadata.
\* minor and patch keep their dot, pre keeps its dash, as the groups do.
ReadCV(s) ==
    IF Len(s) > 0 /\ s[1] = "v" THEN cvMajor(<<"v">>, Tail(s)) ELSE cvMajor(<<>>, s)

\* First index at which sub occurs in s, 0 when it does not (strings.Index + 1).
IndexOfSub(s, sub) ==
    IF \E i \in 1..(Len(s) - Len(sub) + 1) : SubSeq(s, i, i + Len(sub) - 1) = sub
    THEN CHOOSE i \in 1..(Len(s) - Len(sub) + 1) :
            /\ SubSeq(s, i, i + Len(sub) - 1) = sub
            /\ \A j \in 1..(i - 1) : SubSeq(s, j, j + Len(sub) - 1) # sub
    ELSE 0

\* strings.Replace(s, old, new, 1) for a non-empty old.
ReplaceAt(s, i, old, new) ==
    IF i = 0 THEN s ELSE SubSeq(s, 1, i - 1) \o new \o Drop(s, i - 1 + Len(old))

Replace(s, old, new) == ReplaceAt(s, IndexOfSub(s, old), old, new)

\* strings.Split on a non-empty separator; always at least one field.
RECURSIVE SplitSub(_, _)
SplitSub(s, sep) ==
    IF IndexOfSub(s, sep) = 0 THEN <<s>>
    ELSE <<SubSeq(s, 1, IndexOfSub(s, sep) - 1)>>
           \o SplitSub(Drop(s, IndexOfSub(s, sep) - 1 + Len(sep)), sep)

\* \s+-\s+ at the head of s: its length, 0 when s does not start with it.
DashLen(s) ==
    IF /\ TakeWhile(s, PerlSpace) > 0
       /\ Len(s) > TakeWhile(s, PerlSpace)
       /\ s[TakeWhile(s, PerlSpace) + 1] = "-"
       /\ TakeWhile(Drop(s, TakeWhile(s, PerlSpace) + 1), PerlSpace) > 0
    THEN TakeWhile(s, PerlSpace) + 1
           + TakeWhile(Drop(s, TakeWhile(s, PerlSpace) + 1), PerlSpace)
    ELSE 0

NoRange == [ok |-> FALSE, len |-> 0, lo |-> <<>>, hi |-> <<>>]

\* constraintRangeRegex, \s*(cv)\s+-\s+(cv)\s*, at the head of the text: n is
\* the length matched before the second version.
rangeHi(n, lo, hi) ==
    IF ~hi.ok THEN NoRange
    ELSE [ok  |-> TRUE,
          len |-> n + Len(hi.whole) + TakeWhile(hi.rest, PerlSpace),
          lo  |-> lo.whole,
          hi  |-> hi.whole]

rangeLo(n, lo) ==
    IF ~lo.ok \/ DashLen(lo.rest) = 0 THEN NoRange
    ELSE rangeHi(n + Len(lo.whole) + DashLen(lo.rest), lo,
                 ReadCV(Drop(lo.rest, DashLen(lo.rest))))

rangeAt(s) == rangeLo(TakeWhile(s, PerlSpace), ReadCV(SkipSpace(s)))

\* FindAllStringSubmatch of constraintRangeRegex: the matches from left to
\* right, each with its whole text and its two versions.
RECURSIVE findRanges(_)

rangeStep(s, m) ==
    IF m.ok
    THEN <<[whole |-> SubSeq(s, 1, m.len), lo |-> m.lo, hi |-> m.hi]>>
           \o findRanges(Drop(s, m.len))
    ELSE findRanges(Tail(s))

findRanges(s) == IF s = <<>> THEN <<>> ELSE rangeStep(s, rangeAt(s))

\* What a range is rewritten to: ">= lo, <= hi ".
rangeText(m) ==
    <<">", "=", " ">> \o m.lo \o <<",", " ", "<", "=", " ">> \o m.hi \o <<" ">>

RECURSIVE replaceRanges(_, _)
replaceRanges(o, ms) ==
    IF ms = <<>> THEN o
    ELSE replaceRanges(Replace(o, Head(ms).whole, rangeText(Head(ms))), Tail(ms))

\* rewriteRange: every hyphen range becomes a pair of comparisons.
rewriteRange(i) == replaceRanges(i, findRanges(i))

NoConstraint ==
    [ok |-> FALSE, origfunc |-> <<>>, con |-> NoVersion,
     dirty |-> FALSE, minorDirty |-> FALSE, patchDirty |-> FALSE]

\* Which component of the clause's version is the first wildcard or missing.
cvDirty(m) ==
    IF isX(m.major) THEN "major"
    ELSE IF isX(TrimPrefix(m.minor, <<".">>)) \/ m.minor = <<>> THEN "minor"
    ELSE IF isX(TrimPrefix(m.patch, <<".">>)) \/ m.patch = <<>> THEN "patch"
    ELSE "none"

\* The version string parseConstraint hands to NewVersion.
cvVersion(m, d) ==
    CASE d = "major" -> <<"0", ".", "0", ".", "0">> \o m.pre
      [] d = "minor" -> m.major \o <<".", "0", ".", "0">> \o m.pre
      [] d = "patch" -> m.major \o m.minor \o <<".", "0">> \o m.pre
      [] d = "none"  -> m.whole

constraintOf(op, d, con) ==
    IF ~con.ok THEN NoConstraint
    ELSE [ok |-> TRUE, origfunc |-> op, con |-> con, dirty |-> d # "none",
          minorDirty |-> d = "minor", patchDirty |-> d = "patch"]

\* parseConstraint, from the operator and the version groups of one clause.
parseConstraint(op, m) == constraintOf(op, cvDirty(m), NewVersion(cvVersion(m, cvDirty(m))))

\* No group of clauses: the segment is an improper constraint.
NoGroup == [ok |-> FALSE, cs |-> <<>>]

joinClauses(pcl, more) ==
    IF ~more.ok THEN NoGroup ELSE [ok |-> TRUE, cs |-> <<pcl>> \o more.cs]

\* The separator of validConstraintRegex between two clauses, \s*(\s+|,\s*),
\* at the head of s: its length, 0 when there is none.
sepLen(s) ==
    IF Len(s) > TakeWhile(s, PerlSpace) /\ s[TakeWhile(s, PerlSpace) + 1] = ","
    THEN TakeWhile(s, PerlSpace) + 1
           + TakeWhile(Drop(s, TakeWhile(s, PerlSpace) + 1), PerlSpace)
    ELSE TakeWhile(s, PerlSpace)

\* One "||" segment: validConstraintRegex must match it whole, and every
\* clause findConstraintRegex finds in it must parse.
RECURSIVE clauseFrom(_)

\* After a clause: the end of the segment, or a separator and the next clause.
clauseRest(pcl, rest) ==
    IF ~pcl.ok THEN NoGroup
    ELSE IF SkipSpace(rest) = <<>> THEN [ok |-> TRUE, cs |-> <<pcl>>]
    ELSE IF sepLen(rest) = 0 THEN NoGroup
    ELSE joinClauses(pcl, clauseFrom(Drop(rest, sepLen(rest))))

clauseCV(op, m) ==
    IF ~m.ok THEN NoGroup ELSE clauseRest(parseConstraint(op, m), m.rest)

clauseAt(op, t) == clauseCV(op, ReadCV(SkipSpace(Drop(t, Len(op)))))

clauseFrom(t) == clauseAt(ReadOp(t), t)

NoConstraints == [ok |-> FALSE, cs |-> <<>>]

joinGroups(g, more) ==
    IF ~g.ok \/ ~more.ok THEN NoConstraints ELSE [ok |-> TRUE, cs |-> <<g.cs>> \o more.cs]

\* The loop of NewConstraint over the "||" segments: a constraint is the
\* list of its groups, and one improper segment makes the whole improper.
RECURSIVE groupsOf(_)
groupsOf(ors) ==
    IF ors = <<>> THEN [ok |-> TRUE, cs |-> <<>>]
    ELSE joinGroups(clauseFrom(SkipSpace(Head(ors))), groupsOf(Tail(ors)))

\* semver.NewConstraint
NewConstraint(c) == groupsOf(SplitSub(rewriteRange(c), <<"|", "|">>))

\* The guard of the constraint functions: a pre-release version is not
\* compatible with a clause whose version has no pre-release.
preReleaseOnly(v, c) == v.pre # <<>> /\ c.con.pre = <<>>

constraintTilde(v, c) ==
    IF preReleaseOnly(v, c) THEN FALSE
    ELSE IF LessThan(v, c.con) THEN FALSE
    ELSE IF c.con.major = 0 /\ c.con.minor = 0 /\ c.con.patch = 0
            /\ ~c.minorDirty /\ ~c.patchDirty THEN TRUE
    ELSE IF v.major # c.con.major THEN FALSE
    ELSE IF v.minor # c.con.minor /\ ~c.minorDirty THEN FALSE
    ELSE TRUE

constraintTildeOrEqual(v, c) ==
    IF preReleaseOnly(v, c) THEN FALSE
    ELSE IF c.dirty THEN constraintTilde(v, c) ELSE Equal(v, c.con)

\* The patch-wildcard branch of constraintNotEqual: with a pre-release on
\* either side, the pre-releases decide.
notEqualPatchDirty(v, c) ==
    IF v.pre # <<>> \/ c.con.pre # <<>>
    THEN comparePrerelease(v.pre, c.con.pre) # 0
    ELSE FALSE

\* constraintNotEqual: the guard applies to a clause with a wildcard only.
constraintNotEqual(v, c) ==
    IF c.dirty
    THEN IF preReleaseOnly(v, c) THEN FALSE
         ELSE IF c.con.major # v.major THEN TRUE
         ELSE IF c.con.minor # v.minor /\ ~c.minorDirty THEN TRUE
         ELSE IF c.minorDirty THEN FALSE
         ELSE IF c.con.patch # v.patch /\ ~c.patchDirty THEN TRUE
         ELSE IF c.patchDirty THEN notEqualPatchDirty(v, c)
         ELSE ~Equal(v, c.con)
    ELSE ~Equal(v, c.con)

\* The comparison operators, cmp being v.Compare(c.con).
constraintGreaterThan(v, c, cmp) ==
    IF preReleaseOnly(v, c) THEN FALSE
    ELSE IF ~c.dirty THEN cmp = 1
    ELSE IF v.major > c.con.major THEN TRUE
    ELSE IF v.major < c.con.major THEN FALSE
    ELSE IF c.minorDirty THEN FALSE
    ELSE IF c.patchDirty THEN v.minor > c.con.minor
    ELSE cmp = 1

constraintLessThan(v, c, cmp) == IF preReleaseOnly(v, c) THEN FALSE ELSE cmp < 0

constraintGreaterThanEqual(v, c, cmp) == IF preReleaseOnly(v, c) THEN FALSE ELSE cmp >= 0

constraintLessThanEqual(v, c, cmp) ==
    IF preReleaseOnly(v, c) THEN FALSE
    ELSE IF ~c.dirty THEN cmp <= 0
    ELSE IF v.major > c.con.major THEN FALSE
    ELSE IF v.major = c.con.major /\ v.minor > c.con.minor /\ ~c.minorDirty THEN FALSE
    ELSE TRUE

constraintCaret(v, c) ==
    IF preReleaseOnly(v, c) THEN FALSE
    ELSE IF LessThan(v, c.con) THEN FALSE
    ELSE IF c.con.major > 0 \/ c.minorDirty THEN v.major = c.con.major
    ELSE IF c.con.major = 0 /\ v.major > 0 THEN FALSE
    ELSE IF c.con.minor > 0 \/ c.patchDirty THEN v.minor = c.con.minor
    ELSE IF c.con.minor = 0 /\ v.minor > 0 THEN FALSE
    ELSE c.con.patch = v.patch

\* constraint.check: the function of the clause's operator decides.
check(v, c) ==
    CASE c.origfunc \in {<<>>, <<"=">>}               -> constraintTildeOrEqual(v, c)
      [] c.origfunc = <<"!", "=">>                     -> constraintNotEqual(v, c)
      [] c.origfunc = <<">">>                          -> constraintGreaterThan(v, c, Compare(v, c.con))
      [] c.origfunc = <<"<">>                          -> constraintLessThan(v, c, Compare(v, c.con))
      [] c.origfunc \in {<<">", "=">>, <<"=", ">">>}   -> constraintGreaterThanEqual(v, c, Compare(v, c.con))
      [] c.origfunc \in {<<"<", "=">>, <<"=", "<">>}   -> constraintLessThanEqual(v, c, Compare(v, c.con))
      [] c.origfunc \in {<<"~">>, <<"~", ">">>}        -> constraintTilde(v, c)
      [] c.origfunc = <<"^">>                          -> constraintCaret(v, c)

\* Constraints.Check: every clause of some group holds.
Check(c, v) ==
    \E k \in 1..Len(c.cs) : \A i \in 1..Len(c.cs[k]) : check(v, c.cs[k][i])

----------------------------------------------------------------------------
(* maxSatisfying                                                           *)

\* maxStep, were the running maximum never replaced by a greater version.
maxStep_KeepsFirst(v, c, maxVersion) ==
    IF v.ok /\ Check(c, v) /\ ~maxVersion.ok THEN v ELSE maxVersion

\* One iteration of the loop of maxSatisfying: v replaces the running
\* maximum (nil as NoVersion) only when it satisfies c and is strictly greater.
maxStep(v, c, maxVersion) ==
    IF v.ok /\ Check(c, v) /\ (~maxVersion.ok \/ GreaterThan(v, maxVersion))
    THEN v ELSE maxVersion

RECURSIVE maxLoop(_, _, _, _)
maxLoop(versions, c, i, maxVersion) ==
    IF i > Len(versions) THEN maxVersion
    ELSE maxLoop(versions, c, i + 1, maxStep(NewVersion(versions[i]), c, maxVersion))

\* The empty string is <<>>.
stringOrEmpty(maxVersion) == IF ~maxVersion.ok THEN <<>> ELSE String(maxVersion)

\* maxSatisfying past the exact match: the constraint, then the loop.
maxOfConstraint(versions, c) ==
    IF ~c.ok THEN <<>> ELSE stringOrEmpty(maxLoop(versions, c, 1, NoVersion))

\* exactMatch, were the exact-match loop missing.
exactMatch_Never(versions, want) == FALSE

\* The first loop of maxSatisfying: is want an element of versions?
exactMatch(versions, want) == \E i \in 1..Len(versions) : versions[i] = want

maxSatisfying(versions, spec) ==
    IF exactMatch(versions, TrimPrefix(spec, <<"v">>)) THEN TrimPrefix(spec, <<"v">>)
    ELSE maxOfConstraint(versions, NewConstraint(spec))

----------------------------------------------------------------------------
(* sortVersions                                                            *)

optVersion(v) == IF v.ok THEN <<v>> ELSE <<>>

\* The versions of a list that parse, in order (the loop that builds vs).
RECURSIVE parseAll(_)
parseAll(versions) ==
    IF versions = <<>> THEN <<>>
    ELSE optVersion(NewVersion(Head(versions))) \o parseAll(Tail(versions))

\* reverseLess, were sort.Reverse missing (an ascending sort).
reverseLess_Ascending(a, b) == LessThan(a, b)

\* semver.Collection.Less under sort.Reverse: Less(i, j) is c[j].LessThan(c[i]).
reverseLess(a, b) == LessThan(b, a)

\* insert, were the list left in its input order.
insert_Unsorted(sorted, x) == sorted \o <<x>>

\* One pass of sort's insertion sort: x moves left past every element that
\* the reversed order puts after it.
RECURSIVE insert(_, _)
insert(sorted, x) ==
    IF sorted = <<>> THEN <<x>>
    ELSE IF reverseLess(x, sorted[Len(sorted)])
         THEN insert(SubSeq(sorted, 1, Len(sorted) - 1), x) \o <<sorted[Len(sorted)]>>
         ELSE sorted \o <<x>>

\* sort.Sort on a slice of at most 12 elements is an insertion sort.
RECURSIVE insertionSort(_)
insertionSort(vs) ==
    IF vs = <<>> THEN <<>>
    ELSE insert(insertionSort(SubSeq(vs, 1, Len(vs) - 1)), vs[Len(vs)])

\* The last loop of sortVersions: the leading entries are overwritten, the
\* entries past the parsed count keep their values.
writeBack(versions, vs) ==
    [i \in 1..Len(versions) |-> IF i <= Len(vs) THEN String(vs[i]) ELSE versions[i]]

\* sortVersions: the slice after the call.
sortVersions(versions) == writeBack(versions, insertionSort(parseAll(versions)))

----------------------------------------------------------------------------
(* checkVersion                                                            *)

\* The comparison of checkVersion, on the two parsed versions.
checkParsed(expected, actual) ==
    IF ~expected.ok THEN "invalid version spec"
    ELSE IF ~actual.ok THEN "invalid installed version"
    ELSE IF ~Equal(expected, actual) THEN "installed gop version does not match"
    ELSE "nil"

\* checkVersion(versionSpec), gop being what gopVersionFunc returned:
\* "nil" or the error it returns.
checkVersion(spec, gop) ==
    IF gop.err THEN "failed to get gop version"
    ELSE checkParsed(NewVersion(spec), NewVersion(gop.out))

----------------------------------------------------------------------------
(* resolveVersionInput, parseGopVersionFile                                *)

\* The characters the string syntax cannot write, named by their code point.
VerticalTab == "U+000B"

NextLine == "U+0085"

NoBreakSpace == "U+00A0"

\* unicode.IsSpace: the characters with the White_Space property.
WhiteSpace ==
    {"\t", "\n", VerticalTab, "\f", "\r", " ", NextLine, NoBreakSpace,
     "U+1680", "U+2000", "U+2001", "U+2002", "U+2003", "U+2004", "U+2005",
     "U+2006", "U+2007", "U+2008", "U+2009", "U+200A", "U+2028", "U+2029",
     "U+202F", "U+205F", "U+3000"}

TrimLeft(s) == Drop(s, TakeWhile(s, WhiteSpace))

RECURSIVE TrimRight(_)
TrimRight(s) ==
    IF Len(s) > 0 /\ s[Len(s)] \in WhiteSpace THEN TrimRight(SubSeq(s, 1, Len(s) - 1)) ELSE s

\* strings.TrimSpace
TrimSpace(s) == TrimRight(TrimLeft(s))

\* filepath.Base: the last element of the path, trailing slashes removed.
RECURSIVE TrimSlashes(_)
TrimSlashes(s) ==
    IF Len(s) > 0 /\ s[Len(s)] = "/" THEN TrimSlashes(SubSeq(s, 1, Len(s) - 1)) ELSE s

Base(path) ==
    LET q     == TrimSlashes(path)
        parts == Split(q, "/")
    IN  IF path = <<>> THEN <<".">>
        ELSE IF q = <<>> THEN <<"/">>
        ELSE parts[Len(parts)]

GopKeyword == <<"g", "o", "p", " ">>

GopMod == <<"g", "o", "p", ".", "m", "o", "d">>

GopWork == <<"g", "o", "p", ".", "w", "o", "r", "k">>

\* regexp `^gop (\d+(\.\d+)*)` on the content: the first group, <<>> when
\* the content does not match.
gopRegexp(content) ==
    LET after == Drop(content, Len(GopKeyword))
    IN  IF HasPrefix(content, GopKeyword) THEN SubSeq(after, 1, DottedRun(after, Digits))
        ELSE <<>>

\* parseGopVersionFile, were every file read as a plain version file.
parseGopVersionFile_PlainOnly(path, f) ==
    IF ~f.readable THEN [val |-> <<>>, err |-> "read error"]
    ELSE [val |-> TrimSpace(f.content), err |-> "nil"]

\* parseGopVersionFile(path), f being the file at the path.
parseGopVersionFile(path, f) ==
    IF ~f.readable THEN [val |-> <<>>, err |-> "read error"]
    ELSE IF Base(path) = GopMod \/ Base(path) = GopWork
         THEN [val |-> gopRegexp(f.content), err |-> "nil"]
         ELSE [val |-> TrimSpace(f.content), err |-> "nil"]

\* resolveVersionInput, e being the environment and f the file at the path
\* INPUT_GOP_VERSION_FILE names.
resolveVersionInput(e, f) ==
    IF e.INPUT_GOP_VERSION # <<>> /\ e.INPUT_GOP_VERSION_FILE # <<>>
    THEN [val |-> e.INPUT_GOP_VERSION, err |-> "nil"]
    ELSE IF e.INPUT_GOP_VERSION # <<>>
    THEN [val |-> e.INPUT_GOP_VERSION, err |-> "nil"]
    ELSE IF e.INPUT_GOP_VERSION_FILE # <<>>
    THEN IF ~f.exists THEN [val |-> <<>>, err |-> "does not exist"]
         ELSE parseGopVersionFile(e.INPUT_GOP_VERSION_FILE, f)
    ELSE [val |-> <<>>, err |-> "nil"]

----------------------------------------------------------------------------
(* fetchTags, fetchBranches, contains, setOutput                           *)

RefsTags == <<"r", "e", "f", "s", "/", "t", "a", "g", "s", "/">>

RefsHeads == <<"r", "e", "f", "s", "/", "h", "e", "a", "d", "s", "/">>

\* fetchTags, refs being the ref column of `git ls-remote --tags`.
fetchTags(refs) ==
    [i \in 1..Len(refs) |-> TrimPrefix(TrimPrefix(refs[i], RefsTags), <<"v">>)]

\* fetchBranches, refs being the ref column of `git ls-remote --heads`.
fetchBranches(refs) == [i \in 1..Len(refs) |-> TrimPrefix(refs[i], RefsHeads)]

contains(slice, item) == \E i \in 1..Len(slice) : slice[i] = item

\* The loop of InstallGop that keeps the tags isValidVersion accepts.
RECURSIVE filterValid(_)
filterValid(tagVersions) ==
    IF tagVersions = <<>> THEN <<>>
    ELSE (IF isValidVersion(Head(tagVersions)) THEN <<Head(tagVersions)>> ELSE <<>>)
           \o filterValid(Tail(tagVersions))

\* setOutput with GITHUB_OUTPUT set: one more name=value line in the file it
\* names; when the file cannot be opened the error is dropped and nothing
\* is written.
setOutput(out, opened, name, value) ==
    IF opened THEN Append(out, <<name, value>>) ELSE out

----------------------------------------------------------------------------
(* InstallGop: one run, step by step.                                      *)

Latest == <<"l", "a", "t", "e", "s", "t">>

True == <<"t", "r", "u", "e">>

False == <<"f", "a", "l", "s", "e">>

\* Longest list of refs the remote reports.
MaxTags == 3

\* Tag names of the remote (after refs/tags/).
TagPool ==
    {<<"v", "1", ".", "0", ".", "0">>,
     <<"v", "9", ".", "0", ".", "0">>,
     <<"v", "1", "0", ".", "0", ".", "0">>,
     <<"v", "1", "0", ".", "0", ".", "0", "-", "r", "c">>,
     <<"v", "1", ".", "0">>,
     <<"n", "i", "g", "h", "t", "l", "y">>}

\* Branch lists of the remote (after refs/heads/).
HeadLists ==
    {<<>>, <<<<"m", "a", "i", "n">>>>, <<<<"d", "e", "v">>, <<"m", "a", "i", "n">>>>}

\* Values of INPUT_GOP_VERSION.
EnvVersions ==
    {<<>>,
     <<"l", "a", "t", "e", "s", "t">>,
     <<"v", "1", ".", "0", ".", "0">>,
     <<">", "=", "1", ".", "0", ".", "0", " ", "<", "1", "0", ".", "0", ".", "0">>,
     <<"m", "a", "i", "n">>,
     <<"2", ".", "0", ".", "0">>,
     <<"1", ".", "0", ".", "0", " ", "|", "|", " ", "9", ".", "0", ".", "0">>,
     <<"!", "=", "9", ".", "0", ".", "0">>}

\* What `gop env GOPVERSION` prints.
GopOutPool ==
    {<<"v", "1", ".", "0", ".", "0", "\n">>,
     <<"9", ".", "0", ".", "0", "\n">>,
     <<"v", "1", "0", ".", "0", ".", "0", "\r", "\n">>,
     <<" ", "1", "0", ".", "0", ".", "0", "-", "r", "c", "\n">>,
     <<"1", ".", "0", "\n">>}

\* A run of `gop env GOPVERSION`: its output, or its failure.
GopRuns == [out : GopOutPool, err : {FALSE}] \cup {[out |-> <<>>, err |-> TRUE]}

\* getGopVersion, run being what the command did: the trimmed output
\* without one leading "v", or an error.
getGopVersion(run) ==
    IF run.err THEN [out |-> <<>>, err |-> TRUE]
    ELSE [out |-> TrimPrefix(TrimSpace(run.out), <<"v">>), err |-> FALSE]

\* What gopVersionFunc returns: a version string, or an error.
GopResults == {getGopVersion(run) : run \in GopRuns}

NoFile == [exists |-> FALSE, readable |-> FALSE, content |-> <<>>]

\* INPUT_GOP_VERSION_FILE and the file found there, for a run of InstallGop.
RunFiles ==
    {[path |-> <<>>, f |-> NoFile],
     [path |-> GopMod, f |-> NoFile],
     [path |-> GopMod,
      f |-> [exists |-> TRUE, readable |-> TRUE, content |-> <<"g", "o", "p", " ", "1", ".", "0", "\n">>]]}

\* All lists without repetition of at most n elements of set.
InjSeqs(set, n) ==
    UNION {{s \in [1..k -> set] : \A i, j \in 1..k : s[i] = s[j] => i = j} : k \in 0..n}

\* PATH before the run.
SystemPath == <<"/usr/bin">>

NoArgs == <<>>

NoRet == <<>>

Call(op, arg) == [op |-> op, arg |-> arg]

Init ==
    /\ pc = "resolve"
    /\ \E v \in EnvVersions, rf \in RunFiles :
          /\ (v # <<>> => rf.path = <<>>) \/ (v = <<"v", "1", ".", "0", ".", "0">> /\ rf.f.exists)
          /\ \E out, path \in BOOLEAN :
                env = [INPUT_GOP_VERSION |-> v, INPUT_GOP_VERSION_FILE |-> rf.path,
                       GITHUB_OUTPUT |-> out, GITHUB_PATH |-> path, PATH |-> SystemPath]
          /\ file = rf.f
    /\ canOpen \in [GITHUB_OUTPUT : BOOLEAN, GITHUB_PATH : BOOLEAN]
    /\ canOpen.GITHUB_OUTPUT => env.GITHUB_OUTPUT
    /\ canOpen.GITHUB_PATH => env.GITHUB_PATH
    /\ pathFile = <<>>
    /\ \E tags \in InjSeqs(TagPool, MaxTags), heads \in HeadLists :
          remote = [tags  |-> [i \in 1..Len(tags) |-> RefsTags \o tags[i]],
                    heads |-> [i \in 1..Len(heads) |-> RefsHeads \o heads[i]]]
    /\ versionSpec = <<>>
    /\ validVersions = <<>>
    /\ version = <<>>
    /\ checkoutVersion = <<>>
    /\ outputs = <<>>
    /\ calls = <<>>
    /\ result = "running"
    /\ args = NoArgs
    /\ ret = NoRet

\* The run ends here with this outcome: "nil", an error, or a panic.
Finish(outcome) == pc' = "done" /\ result' = outcome

\* versionSpec, err := resolveVersionInput()
ResolveInput ==
    /\ pc = "resolve"
    /\ LET r == resolveVersionInput(env, file)
       IN  IF r.err # "nil"
           THEN Finish("error: resolveVersionInput") /\ UNCHANGED versionSpec
           ELSE versionSpec' = r.val /\ pc' = "fetchTags" /\ UNCHANGED result
    /\ UNCHANGED <<env, canOpen, pathFile, file, remote, validVersions, version, checkoutVersion,
                   outputs, calls, args, ret>>

\* tagVersions, err := fetchTags(); the valid ones are kept and sorted.
FetchTags ==
    /\ pc = "fetchTags"
    /\ calls' = Append(calls, Call("fetchTags", <<>>))
    /\ \E ok \in BOOLEAN :
          IF ~ok
          THEN Finish("error: fetchTags") /\ UNCHANGED validVersions
          ELSE /\ validVersions' = sortVersions(filterValid(fetchTags(remote.tags)))
               /\ pc' = "select"
               /\ UNCHANGED result
    /\ UNCHANGED <<env, canOpen, pathFile, file, remote, versionSpec, version, checkoutVersion,
                   outputs, args, ret>>

\* The else branch of the selection, m being maxSatisfying's answer: the
\* version found, or the branches when there is none.
SelectBySpec(m) ==
    IF m # <<>>
    THEN /\ version' = m
         /\ pc' = "checkout"
         /\ UNCHANGED <<result, calls>>
    ELSE /\ version' = <<>>
         /\ calls' = Append(calls, Call("fetchBranches", <<>>))
         /\ \E ok \in BOOLEAN :
               IF ~ok THEN Finish("error: fetchBranches")
               ELSE IF ~contains(fetchBranches(remote.heads), versionSpec)
               THEN Finish("error: no gop-version found")
               ELSE pc' = "checkout" /\ UNCHANGED result

\* The selection: the first of the sorted versions for "latest", else
\* maxSatisfying, else the branches.
SelectVersion ==
    /\ pc = "select"
    /\ IF versionSpec = <<>> \/ versionSpec = Latest
       THEN IF Len(validVersions) = 0
            THEN Finish("panic: index out of range") /\ UNCHANGED <<version, calls>>
            ELSE /\ version' = validVersions[1]
                 /\ pc' = "checkout"
                 /\ UNCHANGED <<result, calls>>
       ELSE SelectBySpec(maxSatisfying(validVersions, versionSpec))
    /\ UNCHANGED <<env, canOpen, pathFile, file, remote, versionSpec, validVersions, checkoutVersion,
                   outputs, args, ret>>

\* checkoutRef, were the "v" put in front of a branch name too.
checkoutRef_AlwaysTag(ver, spec) == <<"v">> \o (IF ver # <<>> THEN ver ELSE spec)

\* The checkout reference: "v" + version for a selected version, else the
\* spec itself (a branch name).
checkoutRef(ver, spec) == IF ver # <<>> THEN <<"v">> \o ver ELSE spec

\* The value of the gop-version-verified output.
verifiedFlag(ver) == IF ver # <<>> THEN True ELSE False

\* The checkout reference, and the gop-version-verified output.
DeriveCheckout ==
    /\ pc = "checkout"
    /\ checkoutVersion' = checkoutRef(version, versionSpec)
    /\ calls' = Append(calls, Call("setOutput", <<"gop-version-verified", verifiedFlag(version)>>))
    /\ IF env.GITHUB_OUTPUT
       THEN /\ outputs' = setOutput(outputs, canOpen.GITHUB_OUTPUT,
                                    "gop-version-verified", verifiedFlag(version))
            /\ pc' = "clone"
            /\ UNCHANGED result
       ELSE Finish("panic: GITHUB_OUTPUT is not set") /\ UNCHANGED outputs
    /\ UNCHANGED <<env, canOpen, pathFile, file, remote, versionSpec, validVersions, version,
                   args, ret>>

\* gopDir, err := cloneBranchOrTag(checkoutVersion)
Clone ==
    /\ pc = "clone"
    /\ calls' = Append(calls, Call("cloneBranchOrTag", checkoutVersion))
    /\ \E ok \in BOOLEAN :
          IF ok THEN pc' = "install" /\ UNCHANGED result
          ELSE Finish("error: cloneBranchOrTag")
    /\ UNCHANGED <<env, canOpen, pathFile, file, remote, versionSpec, validVersions, version,
                   checkoutVersion, outputs, args, ret>>

\* $HOME/bin, where the build installs the binaries.
BinDir == "$HOME/bin"

\* addToPath's line in the GITHUB_PATH file; nothing is written, and no
\* error raised, when the file cannot be opened.
addToPathFile(f, opened, path) == IF opened THEN Append(f, path) ELSE f

\* addToPath's os.Setenv: path is put in front of PATH.
addToPathEnv(e, path) == [e EXCEPT !.PATH = <<path>> \o @]

\* install(gopDir): the build, then addToPath(binDir).
Install ==
    /\ pc = "install"
    /\ calls' = Append(calls, Call("install", <<>>))
    /\ \E ok \in BOOLEAN :
          IF ~ok
          THEN Finish("error: install") /\ UNCHANGED <<env, pathFile>>
          ELSE IF env.GITHUB_PATH
          THEN /\ pathFile' = addToPathFile(pathFile, canOpen.GITHUB_PATH, BinDir)
               /\ env' = addToPathEnv(env, BinDir)
               /\ pc' = "check"
               /\ UNCHANGED result
          ELSE Finish("panic: GITHUB_PATH is not set") /\ UNCHANGED <<env, pathFile>>
    /\ UNCHANGED <<canOpen, file, remote, versionSpec, validVersions, version,
                   checkoutVersion, outputs, args, ret>>

\* if version != "" { checkVersion(version) }
Verify ==
    /\ pc = "check"
    /\ IF version # <<>>
       THEN /\ calls' = Append(calls, Call("checkVersion", version))
            /\ \E gop \in GopResults :
                  IF checkVersion(version, gop) = "nil"
                  THEN pc' = "report" /\ UNCHANGED result
                  ELSE Finish("error: checkVersion")
       ELSE pc' = "report" /\ UNCHANGED <<result, calls>>
    /\ UNCHANGED <<env, canOpen, pathFile, file, remote, versionSpec, validVersions, version,
                   checkoutVersion, outputs, args, ret>>

\* gopVersion, err := gopVersionFunc(); setOutput("gop-version", gopVersion)
Report ==
    /\ pc = "report"
    /\ \E gop \in GopResults :
          IF gop.err
          THEN /\ calls' = Append(calls, Call("gopVersionFunc", <<>>))
               /\ Finish("error: gopVersionFunc") /\ UNCHANGED outputs
          ELSE /\ calls' = calls \o <<Call("gopVersionFunc", <<>>),
                                      Call("setOutput", <<"gop-version", gop.out>>)>>
               /\ IF env.GITHUB_OUTPUT
                  THEN /\ outputs' = setOutput(outputs, canOpen.GITHUB_OUTPUT,
                                               "gop-version", gop.out)
                       /\ Finish("nil")
                  ELSE Finish("panic: GITHUB_OUTPUT is not set") /\ UNCHANGED outputs
    /\ UNCHANGED <<env, canOpen, pathFile, file, remote, versionSpec, validVersions, version,
                   checkoutVersion, args, ret>>

Next ==
    \/ ResolveInput
    \/ FetchTags
    \/ SelectVersion
    \/ DeriveCheckout
    \/ Clone
    \/ Install
    \/ Verify
    \/ Report

Spec == Init /\ [][Next]_vars

----------------------------------------------------------------------------
(* Properties of a run of InstallGop.                                      *)

\* The outcomes that are an error returned by InstallGop.
ErrorResults ==
    {"error: resolveVersionInput", "error: fetchTags", "error: fetchBranches",
     "error: no gop-version found", "error: cloneBranchOrTag", "error: install",
     "error: checkVersion", "error: gopVersionFunc"}

Called(op) == \E i \in 1..Len(calls) : calls[i].op = op

Published(name, value) == \E i \in 1..Len(outputs) : outputs[i] = <<name, value>>

\* The spec has been resolved and means "latest".
LatestRun ==
    /\ pc \notin {"resolve", "fetchTags"}
    /\ result \notin {"error: resolveVersionInput", "error: fetchTags"}
    /\ versionSpec = <<>> \/ versionSpec = Latest

\* The fetched tags: the remote's tag names with one leading "v" removed.
FetchedTags ==
    {SubSeq(remote.tags[i], Len(RefsTags) + 1, Len(remote.tags[i])) : i \in 1..Len(remote.tags)}

TagVersions == {TrimPrefix(tg, <<"v">>) : tg \in FetchedTags}

\* The fetched tags that are valid versions, parsed.
ValidTagVersions == {NewVersion(tg) : tg \in {x \in TagVersions : isValidVersion(x)}}

\* The branch names of the remote.
BranchNames ==
    {SubSeq(remote.heads[i], Len(RefsHeads) + 1, Len(remote.heads[i])) :
        i \in 1..Len(remote.heads)}

\* Semantic-version precedence, stated on the fields: a is higher than b.
TripleHigher(a, b) ==
    \/ a.major > b.major
    \/ a.major = b.major /\ a.minor > b.minor
    \/ a.major = b.major /\ a.minor = b.minor /\ a.patch > b.patch

SameTriple(a, b) == a.major = b.major /\ a.minor = b.minor /\ a.patch = b.patch

Higher(a, b) ==
    \/ TripleHigher(a, b)
    \/ SameTriple(a, b) /\ a.pre = <<>> /\ b.pre # <<>>
    \/ SameTriple(a, b) /\ a.pre # <<>> /\ b.pre # <<>> /\ comparePrerelease(a.pre, b.pre) = 1

\* The selection has been made (the run is at or past the checkout step).
Selected == pc = "checkout" \/ Called("setOutput")

\* The checkout reference has been derived and the flag published.
Derived == Called("setOutput")

\* The first call of setOutput was for the verified flag with this value,
\* and the line is the first of the file when the file could be opened.
FlagPublished(value) ==
    /\ \E i \in 1..Len(calls) :
          /\ calls[i] = Call("setOutput", <<"gop-version-verified", value>>)
          /\ \A j \in 1..(i - 1) : calls[j].op # "setOutput"
    /\ canOpen.GITHUB_OUTPUT => outputs[1] = <<"gop-version-verified", value>>
    /\ \A i \in 1..Len(outputs) : outputs[i][1] = "gop-version-verified" => outputs[i][2] = value

\* C1: when the spec is empty or "latest" and some fetched tag is a valid
\* version, the selected version is the canonical string of a valid tag that
\* no valid tag is higher than by semantic-version precedence, the checkout
\* reference (and what clone is called with) is "v" + that version, and the
\* verified flag is published as true.
C1_LatestSelectsHighest ==
    (LatestRun /\ ValidTagVersions # {} /\ Selected) =>
        /\ \E v \in ValidTagVersions :
              /\ version = String(v)
              /\ \A w \in ValidTagVersions : ~Higher(w, v)
        /\ Derived =>
              /\ checkoutVersion = <<"v">> \o version
              /\ FlagPublished(True)
        /\ \A i \in 1..Len(calls) :
              calls[i].op = "cloneBranchOrTag" => calls[i].arg = <<"v">> \o version

\* A finished "latest" run over the tags v9.0.0, v10.0.0-rc and v10.0.0:
\* 10.0.0 was selected, cloned as v10.0.0 and published as verified.
C1_Witness ==
    /\ LatestRun /\ pc = "done" /\ result = "nil"
    /\ {<<"v", "9", ".", "0", ".", "0">>, <<"v", "1", "0", ".", "0", ".", "0", "-", "r", "c">>, <<"v", "1", "0", ".", "0", ".", "0">>} \subseteq FetchedTags
    /\ version = <<"1", "0", ".", "0", ".", "0">>
    /\ Called("cloneBranchOrTag")
    /\ Published("gop-version-verified", True)

\* C2: when the spec is empty or "latest" and no fetched tag is a valid
\* version, the run ends with an error returned by InstallGop, before any
\* clone or build and without publishing any output.
C2_NoValidTagsIsAnError ==
    (LatestRun /\ ValidTagVersions = {} /\ pc \notin {"select"}) =>
        /\ pc = "done"
        /\ result \in ErrorResults
        /\ ~Called("cloneBranchOrTag") /\ ~Called("install")
        /\ ~Called("setOutput") /\ outputs = <<>>

\* C5: the branches are fetched only when a spec other than "" and "latest"
\* matched no valid tag version; when the spec is then a branch name, the
\* checkout reference is the spec itself, the verified flag is published as
\* false, checkVersion is never run and a run that ends well has queried and
\* published the installed version; when it is no branch name, the run ends
\* with an error and nothing is cloned or built.
C5_BranchFallback ==
    Called("fetchBranches") =>
        /\ versionSpec # <<>> /\ versionSpec # Latest
        /\ maxSatisfying(validVersions, versionSpec) = <<>>
        /\ version = <<>>
        /\ ~Called("checkVersion")
        /\ (versionSpec \notin BranchNames) =>
              /\ pc = "done" /\ result \in ErrorResults
              /\ ~Called("cloneBranchOrTag") /\ ~Called("install")
        /\ (versionSpec \in BranchNames /\ result # "error: fetchBranches") =>
              /\ Selected
              /\ Derived =>
                    /\ checkoutVersion = versionSpec
                    /\ FlagPublished(False)
              /\ \A i \in 1..Len(calls) :
                    calls[i].op = "cloneBranchOrTag" => calls[i].arg = versionSpec
              /\ result = "nil" =>
                    /\ Called("gopVersionFunc")
                    /\ calls[Len(calls)].op = "setOutput"
                    /\ calls[Len(calls)].arg[1] = "gop-version"
                    /\ canOpen.GITHUB_OUTPUT =>
                          (Len(outputs) = 2 /\ outputs[2] = calls[Len(calls)].arg)

\* A finished run for the spec "main" over a remote with valid tags and the
\* branch main: main was cloned, unverified.
C5_Witness ==
    /\ Called("fetchBranches") /\ pc = "done" /\ result = "nil"
    /\ versionSpec = <<"m", "a", "i", "n">>
    /\ ValidTagVersions # {}
    /\ checkoutVersion = <<"m", "a", "i", "n">>
    /\ Published("gop-version-verified", False)

\* C10: the verified output is published as true only once checkVersion has
\* run and found the installed version equal to the selected one; a run that
\* fails at clone, build or verification leaves no verified=true.
C10_VerifiedOnlyAfterCheck ==
    Published("gop-version-verified", True) =>
        /\ Called("checkVersion") /\ pc \in {"report", "done"}
        /\ result \notin {"error: cloneBranchOrTag", "error: install", "error: checkVersion"}

----------------------------------------------------------------------------
(* The helpers on their own: each specification draws the arguments of one *)
(* helper from a bounded set and applies it.                               *)

NoEnv ==
    [INPUT_GOP_VERSION |-> <<>>, INPUT_GOP_VERSION_FILE |-> <<>>,
     GITHUB_OUTPUT |-> TRUE, GITHUB_PATH |-> TRUE, PATH |-> SystemPath]

NoRemote == [tags |-> <<>>, heads |-> <<>>]

\* No run of InstallGop is in progress.
NoRun ==
    /\ canOpen = [GITHUB_OUTPUT |-> TRUE, GITHUB_PATH |-> TRUE]
    /\ pathFile = <<>>
    /\ remote = NoRemote
    /\ versionSpec = <<>>
    /\ validVersions = <<>>
    /\ version = <<>>
    /\ checkoutVersion = <<>>
    /\ outputs = <<>>
    /\ calls = <<>>
    /\ result = "running"

\* All strings of at most n characters of alphabet.
Strings(alphabet, n) == UNION {[1..k -> alphabet] : k \in 0..n}

\* All lists of at most n elements of set.
Lists(set, n) == UNION {[1..k -> set] : k \in 0..n}

Return(value) ==
    /\ pc' = "return"
    /\ ret' = value
    /\ UNCHANGED <<env, canOpen, pathFile, file, remote, versionSpec, validVersions, version,
                   checkoutVersion, outputs, calls, result, args>>

(* isValidVersion *)

\* Longest string isValidVersion is applied to.
MaxStrLen == 7

VersionAlphabet == {"v", "1", ".", "-", "+", "a"}

InitValid ==
    /\ pc = "call"
    /\ env = NoEnv /\ file = NoFile /\ NoRun
    /\ args \in [version : Strings(VersionAlphabet, MaxStrLen)]
    /\ ret = NoRet

CallIsValidVersion == pc = "call" /\ Return(isValidVersion(args.version))

NextValid == CallIsValidVersion

SpecValid == InitValid /\ [][NextValid]_vars

\* The grammar of a strict version, stated on the string: an optional "-"
\* and identifiers, then an optional "+" and identifiers.
SuffixOK(x) ==
    \/ x = <<>>
    \/ /\ x[1] = "+"
       /\ Len(x) > 1 /\ IdentOK(Tail(x))
    \/ /\ x[1] = "-"
       /\ Len(SplitAt(Tail(x), "+").head) > 0 /\ IdentOK(SplitAt(Tail(x), "+").head)
       /\ SplitAt(Tail(x), "+").found =>
             (Len(SplitAt(Tail(x), "+").tail) > 0 /\ IdentOK(SplitAt(Tail(x), "+").tail))

\* b is exactly three dot-separated numbers and then a suffix.
ThreeComponents(b) ==
    /\ Len(Split(SubSeq(b, 1, TakeWhile(b, Digits \cup {"."})), ".")) = 3
    /\ \A i \in 1..3 : IsNumeric(Split(SubSeq(b, 1, TakeWhile(b, Digits \cup {"."})), ".")[i])
    /\ SuffixOK(Drop(b, TakeWhile(b, Digits \cup {"."})))

StrictVersion(s) == ThreeComponents(TrimPrefix(s, <<"v">>))

\* C6: isValidVersion(s) is true exactly when s is an optional single "v",
\* three dot-separated numeric components, and an optional -prerelease
\* and/or +buildmetadata suffix, each possibly containing dots.
C6_ValidIffStrictGrammar ==
    pc = "return" => (ret = StrictVersion(args.version))

(* checkVersion *)

\* Version strings checkVersion is applied to, as the expected version and
\* as what the installed binary reports.
CheckPool ==
    {<<"1", ".", "0", ".", "0">>,
     <<"1", ".", "1", ".", "0">>,
     <<"1", ".", "0">>,
     <<"1">>,
     <<"v", "1", ".", "0", ".", "0">>,
     <<"1", ".", "0", ".", "0", "-", "a", "l", "p", "h", "a">>,
     <<"1", ".", "0", ".", "0", "-", "b", "e", "t", "a">>,
     <<"1", ".", "0", ".", "0", "+", "b">>,
     <<"1", ".", "0", ".", "0", "-", "a", "l", "p", "h", "a", "+", "b">>,
     <<"1", ".", "0", ".", "0", ".", "0">>,
     <<"i", "n", "v", "a", "l", "i", "d">>,
     <<"1", "8", "4", "4", "6", "7", "4", "4", "0", "7", "3", "7", "0", "9", "5", "5", "1", "6", "1", "6", ".", "0", ".", "0">>,
     <<>>}

InitCheck ==
    /\ pc = "call"
    /\ env = NoEnv /\ file = NoFile /\ NoRun
    /\ args \in [versionSpec : CheckPool,
                 gop : [out : CheckPool, err : {FALSE}] \cup {[out |-> <<>>, err |-> TRUE]}]
    /\ ret = NoRet

CallCheckVersion == pc = "call" /\ Return(checkVersion(args.versionSpec, args.gop))

NextCheck == CallCheckVersion

SpecCheck == InitCheck /\ [][NextCheck]_vars

\* Equal in major, minor, patch and pre-release.
SameVersion(a, b) == SameTriple(a, b) /\ a.pre = b.pre

\* C7 as claimed: checkVersion succeeds exactly when the query succeeded,
\* both strings are strict three-component versions (what isValidVersion
\* accepts) and the two versions are equal.
C7_SucceedsIffStrictAndEqual ==
    pc = "return" =>
        (ret = "nil" <=>
            /\ ~args.gop.err
            /\ isValidVersion(args.versionSpec) /\ isValidVersion(args.gop.out)
            /\ SameVersion(NewVersion(args.versionSpec), NewVersion(args.gop.out)))

\* C7, amended: checkVersion succeeds exactly when the query succeeded, both
\* strings parse under the lenient grammar of semver.NewVersion (one to three
\* components, the missing ones 0) and the two versions are equal in major,
\* minor, patch and pre-release; otherwise it returns an error.
C7_SucceedsIffLenientAndEqual ==
    pc = "return" =>
        /\ ret = "nil" <=>
              /\ ~args.gop.err
              /\ NewVersion(args.versionSpec).ok /\ NewVersion(args.gop.out).ok
              /\ SameVersion(NewVersion(args.versionSpec), NewVersion(args.gop.out))
        /\ args.gop.err => ret = "failed to get gop version"

\* checkVersion returned nil for an expected 1.0.0 and an installed "1.0".
C7_Witness ==
    /\ pc = "return" /\ ret = "nil"
    /\ args.versionSpec = <<"1", ".", "0", ".", "0">>
    /\ args.gop.out = <<"1", ".", "0">>

(* maxSatisfying *)

\* Longest list of versions maxSatisfying is applied to.
MaxVersions == 3

\* Valid versions the lists are made of.
VersionPool ==
    {<<"1", ".", "0", ".", "0">>,
     <<"1", ".", "1", ".", "0">>,
     <<"2", ".", "0", ".", "0">>,
     <<"1", "0", ".", "0", ".", "0">>,
     <<"1", ".", "0", ".", "0", "-", "a", "l", "p", "h", "a">>,
     <<"1", ".", "0", ".", "0", "+", "b">>,
     <<"v", "2", ".", "0", ".", "0">>}

\* Specs maxSatisfying is applied to.
SpecPool ==
    {<<"1", ".", "0", ".", "0">>,
     <<"v", "1", ".", "0", ".", "0">>,
     <<">", "1", ".", "0", ".", "0">>,
     <<">", "=", "1", ".", "0", ".", "0", " ", "<", "2", ".", "0", ".", "0">>,
     <<"<", "=", "1", ".", "1", ".", "0">>,
     <<"3", ".", "0", ".", "0">>,
     <<"i", "n", "v", "a", "l", "i", "d">>,
     <<"1", ".", "0", ".", "0", "-", "a", "l", "p", "h", "a">>,
     <<"^", "1", ".", "0", ".", "0">>,
     <<"~", "1", ".", "0", ".", "0">>,
     <<"1", ".", "x">>,
     <<"v", "v", "2", ".", "0", ".", "0">>,
     <<">", "=", "1", ".", "0", ".", "0", ",", " ", "<", "2", ".", "0", ".", "0">>,
     <<"1", ".", "0", ".", "0", " ", "|", "|", " ", "2", ".", "0", ".", "0">>,
     <<"1", ".", "0", ".", "0", " ", "-", " ", "1", ".", "1", ".", "0">>,
     <<"1", ".", "x", ".", "|">>,
     <<">", "=", "1", ".", "0", ".", "0", "\f", "<", "2", ".", "0", ".", "0">>,
     <<"!", "=", "2", ".", "0", ".", "0">>,
     <<"!", "=", "1", ".", "0", ".", "x", "-", "a", "l", "p", "h", "a">>}

InitMax ==
    /\ pc = "call"
    /\ env = NoEnv /\ file = NoFile /\ NoRun
    /\ args \in [versions : Lists(VersionPool, MaxVersions), spec : SpecPool]
    /\ ret = NoRet

CallMaxSatisfying == pc = "call" /\ Return(maxSatisfying(args.versions, args.spec))

NextMax == CallMaxSatisfying

SpecMax == InitMax /\ [][NextMax]_vars

Elements(list) == {list[i] : i \in 1..Len(list)}

\* The listed versions that satisfy constraint c.
Satisfying(list, c) == {v \in {NewVersion(x) : x \in Elements(list)} : Check(c, v)}

\* The spec is an element of the list once one leading "v" is removed.
Pinned == TrimPrefix(args.spec, <<"v">>) \in Elements(args.versions)

\* C3: when the spec is not an element of the list, maxSatisfying returns
\* the canonical string of a listed version that satisfies the constraint and
\* that no satisfying listed version is higher than; it returns the empty
\* string when none satisfies it or the spec is no valid constraint.
C3_MaxOfSatisfying ==
    (pc = "return" /\ ~Pinned) =>
        IF ~NewConstraint(args.spec).ok \/ Satisfying(args.versions, NewConstraint(args.spec)) = {}
        THEN ret = <<>>
        ELSE \E v \in Satisfying(args.versions, NewConstraint(args.spec)) :
                /\ ret = String(v)
                /\ \A w \in Satisfying(args.versions, NewConstraint(args.spec)) : ~Higher(w, v)

\* maxSatisfying([2.0.0, 1.0.0, 1.1.0], ">=1.0.0 <2.0.0") returned 1.1.0.
C3_Witness ==
    /\ pc = "return"
    /\ args.spec = <<">", "=", "1", ".", "0", ".", "0", " ", "<", "2", ".", "0", ".", "0">>
    /\ args.versions = <<<<"2", ".", "0", ".", "0">>, <<"1", ".", "0", ".", "0">>, <<"1", ".", "1", ".", "0">>>>
    /\ ret = <<"1", ".", "1", ".", "0">>

\* C4: when the spec with one leading "v" removed is an element of the list,
\* maxSatisfying returns exactly that element.
C4_ExactMatchShortCircuit ==
    (pc = "return" /\ Pinned) => ret = TrimPrefix(args.spec, <<"v">>)

\* maxSatisfying([1.0.0, 1.0.0-alpha], "1.0.0-alpha") returned 1.0.0-alpha.
C4_Witness ==
    /\ pc = "return"
    /\ args.spec = <<"1", ".", "0", ".", "0", "-", "a", "l", "p", "h", "a">>
    /\ args.versions = <<<<"1", ".", "0", ".", "0">>, <<"1", ".", "0", ".", "0", "-", "a", "l", "p", "h", "a">>>>
    /\ ret = <<"1", ".", "0", ".", "0", "-", "a", "l", "p", "h", "a">>

(* sortVersions *)

\* Longest list sortVersions is applied to.
MaxList == 3

\* Strings the lists are made of.
SortPool ==
    {<<"1", ".", "0", ".", "0">>,
     <<"v", "2", ".", "0", ".", "0">>,
     <<"9", ".", "0", ".", "0">>,
     <<"1", "0", ".", "0", ".", "0">>,
     <<"1", ".", "0", ".", "0", "-", "a", "l", "p", "h", "a">>,
     <<"1", ".", "0", ".", "0", "-", "b", "e", "t", "a">>,
     <<"1", ".", "0", ".", "0", "+", "b">>,
     <<"i", "n", "v", "a", "l", "i", "d">>,
     <<"1", "8", "4", "4", "6", "7", "4", "4", "0", "7", "3", "7", "0", "9", "5", "5", "1", "6", "1", "6", ".", "0", ".", "0">>}

InitSort ==
    /\ pc = "call"
    /\ env = NoEnv /\ file = NoFile /\ NoRun
    /\ args \in [versions : Lists(SortPool, MaxList)]
    /\ ret = NoRet

CallSortVersions == pc = "call" /\ Return(sortVersions(args.versions))

NextSort == CallSortVersions

SpecSort == InitSort /\ [][NextSort]_vars

\* The indices of the entries of list that parse as versions.
Parsable(list) == {i \in 1..Len(list) : NewVersion(list[i]).ok}

\* C9: after sortVersions the first N entries (N the number of entries that
\* parse) are in non-increasing precedence, canonical without a leading "v",
\* and the parsable input entries in some order; the entries past N keep
\* their values.
C9_SortedPrefix ==
    pc = "return" =>
        /\ Len(ret) = Len(args.versions)
        /\ \A i \in 1..Cardinality(Parsable(args.versions)) :
              /\ NewVersion(ret[i]).ok
              /\ ret[i] = String(NewVersion(ret[i]))
              /\ ret[i][1] # "v"
              /\ i > 1 => ~Higher(NewVersion(ret[i]), NewVersion(ret[i - 1]))
              /\ Cardinality({j \in 1..Cardinality(Parsable(args.versions)) : ret[j] = ret[i]})
                   = Cardinality({j \in Parsable(args.versions) :
                                     String(NewVersion(args.versions[j])) = ret[i]})
        /\ \A i \in (Cardinality(Parsable(args.versions)) + 1)..Len(ret) :
              ret[i] = args.versions[i]

\* sortVersions([invalid, 9.0.0, 10.0.0]) left [10.0.0, 9.0.0, 10.0.0]: two
\* entries parse, the third entry is left as it was.
C9_Witness ==
    /\ pc = "return"
    /\ args.versions = <<<<"i", "n", "v", "a", "l", "i", "d">>, <<"9", ".", "0", ".", "0">>, <<"1", "0", ".", "0", ".", "0">>>>
    /\ ret = <<<<"1", "0", ".", "0", ".", "0">>, <<"9", ".", "0", ".", "0">>, <<"1", "0", ".", "0", ".", "0">>>>

(* resolveVersionInput *)

\* Values of INPUT_GOP_VERSION.
InputVersions ==
    {<<>>,
     <<"1", ".", "0", ".", "0">>,
     <<" ", "l", "a", "t", "e", "s", "t">>}

\* Values of INPUT_GOP_VERSION_FILE.
InputFiles ==
    {<<>>,
     <<"g", "o", "p", ".", "m", "o", "d">>,
     <<"d", "/", "g", "o", "p", ".", "w", "o", "r", "k">>,
     <<"v", "e", "r", "s", "i", "o", "n">>,
     <<"g", "o", "p", ".", "m", "o", "d", ".", "t", "x", "t">>}

\* Contents of the version file.
FileContents ==
    {<<"g", "o", "p", " ", "1", ".", "2", ".", "3", "\n", "r", "e", "q", "u", "i", "r", "e", " ", "(", ".", ".", ".", ")", "\n">>,
     <<"g", "o", "p", " ", "1", ".", "1", ".", "0", "\n", "\n", "u", "s", "e", " ", ".", "/", ".", ".", ".", "\n">>,
     <<"i", "n", "v", "a", "l", "i", "d", " ", "c", "o", "n", "t", "e", "n", "t">>,
     <<"1", ".", "1", ".", "0", "\n">>,
     <<" ", "g", "o", "p", " ", "1", ".", "0", "\n">>,
     <<"g", "o", "p", " ", "1", ".", "\n">>,
     <<"g", "o", "p", " ", "v", "1", ".", "0">>,
     <<"\n", " ", "1", ".", "0", ".", "0", " ", "\t", "\n">>,
     <<"1", ".", "0", ".", "0", "\f", "\n">>,
     <<NoBreakSpace, "1", ".", "0", VerticalTab, NextLine>>,
     <<>>}

\* What may be found at the path: nothing, a file that cannot be read, a file.
FileStates ==
    {NoFile, [exists |-> TRUE, readable |-> FALSE, content |-> <<>>]}
      \cup [exists : {TRUE}, readable : {TRUE}, content : FileContents]

InitResolve ==
    /\ pc = "call"
    /\ env \in [INPUT_GOP_VERSION : InputVersions, INPUT_GOP_VERSION_FILE : InputFiles,
                GITHUB_OUTPUT : {TRUE}, GITHUB_PATH : {TRUE}, PATH : {SystemPath}]
    /\ file \in FileStates
    /\ NoRun
    /\ args = NoArgs
    /\ ret = NoRet

CallResolveVersionInput == pc = "call" /\ Return(resolveVersionInput(env, file))

NextResolve == CallResolveVersionInput

SpecResolve == InitResolve /\ [][NextResolve]_vars

\* t is s without its leading and trailing whitespace.
IsTrimOf(t, s) ==
    \E i \in 1..(Len(s) + 1), j \in 0..Len(s) :
        /\ t = SubSeq(s, i, j)
        /\ \A k \in 1..(i - 1) : s[k] \in WhiteSpace
        /\ \A k \in (j + 1)..Len(s) : s[k] \in WhiteSpace
        /\ t # <<>> => (t[1] \notin WhiteSpace /\ t[Len(t)] \notin WhiteSpace)

\* s is dot-separated numbers.
IsDottedNumber(s) == \A i \in 1..Len(Split(s, ".")) : IsNumeric(Split(s, ".")[i])

\* t is the numeric version after a leading "gop " in s, <<>> when absent.
IsGopVersionOf(t, s) ==
    IF HasPrefix(s, GopKeyword) /\ Len(s) > 4 /\ s[5] \in Digits
    THEN \E n \in 1..(Len(s) - 4) :
            /\ t = SubSeq(s, 5, 4 + n)
            /\ IsDottedNumber(t)
            /\ \A k \in (n + 1)..(Len(s) - 4) : ~IsDottedNumber(SubSeq(s, 5, 4 + k))
    ELSE t = <<>>

\* The name of the version file is gop.mod or gop.work.
IsGopFile(path) ==
    \E name \in {GopMod, GopWork} :
        \/ path = name
        \/ Len(path) > Len(name)
             /\ SubSeq(path, Len(path) - Len(name), Len(path)) = <<"/">> \o name

\* C8: an explicit version is returned as it is, whatever the file; with
\* only a file path, a missing file is an error, a gop.mod or gop.work
\* gives the numeric version after its leading "gop " (or nothing) and any
\* other file its trimmed content; with neither, the empty spec, no error.
C8_ResolveVersionInput ==
    pc = "return" =>
        /\ env.INPUT_GOP_VERSION # <<>> =>
              ret = [val |-> env.INPUT_GOP_VERSION, err |-> "nil"]
        /\ (env.INPUT_GOP_VERSION = <<>> /\ env.INPUT_GOP_VERSION_FILE = <<>>) =>
              ret = [val |-> <<>>, err |-> "nil"]
        /\ (env.INPUT_GOP_VERSION = <<>> /\ env.INPUT_GOP_VERSION_FILE # <<>>) =>
              /\ ~file.exists => ret = [val |-> <<>>, err |-> "does not exist"]
              /\ (file.exists /\ ~file.readable) => ret.err \notin {"nil", "does not exist"}
              /\ (file.exists /\ file.readable) =>
                    /\ ret.err = "nil"
                    /\ IF IsGopFile(env.INPUT_GOP_VERSION_FILE)
                       THEN IsGopVersionOf(ret.val, file.content)
                       ELSE IsTrimOf(ret.val, file.content)

\* Both inputs were set and no file exists at the path: the explicit
\* version came back, without an error.
C8_Witness ==
    /\ pc = "return"
    /\ env.INPUT_GOP_VERSION = <<"1", ".", "0", ".", "0">>
    /\ env.INPUT_GOP_VERSION_FILE = GopMod
    /\ ~file.exists
    /\ ret = [val |-> <<"1", ".", "0", ".", "0">>, err |-> "nil"]

====
